---- MODULE Spec2Model ----
(***************************************************************************)
(* A model of the Nebula Go SDK client: the request executor (doRequest),  *)
(* the error taxonomy (mapHTTPError, APIError), the client's cached auth   *)
(* token and the Auth, Databases, Tables and Records services.             *)
(*                                                                         *)
(* Strings that the code inspects are modelled by what the code inspects:  *)
(* a path is a sequence of path tokens ("/" is a token of its own), so     *)
(* that strings.HasPrefix / strings.TrimPrefix are computed; a response    *)
(* body is a sequence of JSON tokens, each with its size in bytes, so that *)
(* io.LimitReader and json.Unmarshal are computed.                         *)
(***************************************************************************)
EXTENDS Integers, Sequences, FiniteSets, TLC

VARIABLES authToken, words, pc, call, ret, trail, client, server

vars == <<authToken, words, pc, call, ret, trail, client, server>>

(***************************************************************************)
(* Bounds of the model.                                                    *)
(***************************************************************************)
\* Longest response body drawn for the transport, in JSON tokens.
MaxBodyLen == 2

\* Longest base URL handed to NewClient, in URL pieces.
MaxURLLen == 4

\* Most options handed to NewClient.
MaxOpts == 2

(***************************************************************************)
(* Program constants.                                                      *)
(***************************************************************************)
\* const maxResponseBody = 1 * 1024 * 1024
maxResponseBody == 1048576

\* const apiVersionPath = "/api/v1"
apiVersionPath == <<"/", "api", "/", "v1">>

\* http.StatusNoContent
StatusNoContent == 204

\* const defaultTimeout = 10 * time.Second, in seconds
defaultTimeout == 10

\* The excerpt limit of the fallback error message: len(respBytes) < 200.
ExcerptLimit == 200

(***************************************************************************)
(* Input domains.                                                          *)
(***************************************************************************)
\* The goroutines that call the client.
Callers == {1, 2}

\* Token values a server hands out or a caller sets.
Tokens == {"T1", "T2"}

\* Database and table names: empty, whitespace only, and a usable name.
Names == {"", " ", "db1"}

\* Table names: whitespace only, and a usable name.
TableNames == {" ", "tbl1"}

\* Names that strings.TrimSpace reduces to "".
WhitespaceOnly == {"", " "}

\* Email and password arguments.
Credentials == {"", "u"}

\* Record identifiers.
RecordIDs == {0, 1}

\* Record data / update data maps: empty, serializable, not serializable
\* (a value json.Marshal rejects, such as a channel or a NaN).
DataMaps == {"empty", "ok", "unmarshalable"}

\* Filters of Records.List: nil, only an empty key, one usable pair.
FilterMaps == {"nil", "emptykey", "color"}

\* Number of columns of a schema payload.
\* ListRecordsOptions: "" is a nil pointer.
NoListOptions ==
    [Filters |-> "nil", SortBy |-> "", SortDirection |-> "", Limit |-> "",
     Offset |-> ""]

ListOptions ==
    {[NoListOptions EXCEPT !.Filters = filters] : filters \in FilterMaps}
    \cup {[Filters |-> "nil", SortBy |-> "name", SortDirection |-> "DESC",
           Limit |-> "10", Offset |-> ""],
          [Filters |-> "color", SortBy |-> "name", SortDirection |-> "upward",
           Limit |-> "", Offset |-> "5"]}

ColumnCounts == {0, 1}

\* The context argument: usable or nil (http.NewRequestWithContext
\* rejects a nil context).
Contexts == {"ctx", "nilctx"}

\* Status codes the transport may answer with.
Statuses == {200, 204, 302, 400, 401, 403, 404, 409, 418, 429, 500, 503}

(***************************************************************************)
(* Strings as token sequences.                                             *)
(***************************************************************************)
\* strings.HasPrefix
HasPrefix(s, prefix) ==
    /\ Len(prefix) <= Len(s)
    /\ SubSeq(s, 1, Len(prefix)) = prefix

\* strings.TrimPrefix
TrimPrefix(s, prefix) ==
    IF HasPrefix(s, prefix) THEN SubSeq(s, Len(prefix) + 1, Len(s)) ELSE s

\* strings.HasSuffix
HasSuffix(s, suffix) ==
    /\ Len(suffix) <= Len(s)
    /\ SubSeq(s, Len(s) - Len(suffix) + 1, Len(s)) = suffix

\* strings.TrimSuffix
TrimSuffix(s, suffix) ==
    IF HasSuffix(s, suffix) THEN SubSeq(s, 1, Len(s) - Len(suffix)) ELSE s

\* strings.TrimSpace, as far as the code uses it: compared with "".
TrimSpace(name) == IF name \in WhitespaceOnly THEN "" ELSE name

(***************************************************************************)
(* The error taxonomy (errors.go).  An error value is a record:            *)
(*   kind        "nil", "sentinel", "errorString" (errors.New, fmt.Errorf  *)
(*               without %w), "wrapError" (fmt.Errorf with %w), "APIError" *)
(*   StatusCode  APIError.StatusCode (0 for any other kind)                *)
(*   Message     APIError.Message (NoMessage for any other kind)           *)
(*   base        the text of the error a status code was mapped to, or of  *)
(*               the error itself                                          *)
(*   is          the sentinels errors.Is finds in its Unwrap chain         *)
(*   cause       what the error wraps: "none", "marshal", "request",       *)
(*               "transport", "read", "decode"                             *)
(***************************************************************************)
\* var ( ErrBadRequest = errors.New(...) ... )
Sentinels ==
    {"ErrBadRequest", "ErrUnauthorized", "ErrForbidden", "ErrNotFound",
     "ErrConflict", "ErrRateLimited", "ErrInternalServer",
     "ErrInvalidResponse", "ErrAuthTokenMissing", "ErrDatabaseExists",
     "ErrDatabaseNotFound", "ErrRecordNotFound", "ErrTableNotFound",
     "ErrInvalidFilterValue"}

\* A message: a text, and for the synthesized "API returned status N" the
\* code N and whether a raw-body excerpt follows it.
NoMessage == [text |-> "", code |-> 0, excerpt |-> FALSE]

ServerMessage(text) == [text |-> text, code |-> 0, excerpt |-> FALSE]

StatusMessage(statusCode, withExcerpt) ==
    [text |-> "API returned status", code |-> statusCode, excerpt |-> withExcerpt]

\* What errors.As(err, &apiErr) finds in an error's chain: no *APIError.
NoAPIError == [found |-> FALSE, StatusCode |-> 0]

\* The nil error.  An error carries, besides its own fields, the sentinels
\* errors.Is matches in its chain (is) and the first *APIError errors.As
\* finds there (apiErr).
NoErr ==
    [kind |-> "nil", StatusCode |-> 0, Message |-> NoMessage, base |-> "",
     is |-> {}, cause |-> "none", apiErr |-> NoAPIError]

\* One of the package's sentinel values, returned as it is.
SentinelErr(name) ==
    [kind |-> "sentinel", StatusCode |-> 0, Message |-> NoMessage,
     base |-> name, is |-> {name}, cause |-> "none", apiErr |-> NoAPIError]

\* errors.New(text) and fmt.Errorf(text) without %w: a fresh value that
\* errors.Is matches with no sentinel.
NewErr(text) ==
    [kind |-> "errorString", StatusCode |-> 0, Message |-> NoMessage,
     base |-> text, is |-> {}, cause |-> "none", apiErr |-> NoAPIError]

\* An error of the environment (json, net/http, io), named by its origin.
CauseErr(origin) ==
    [kind |-> "errorString", StatusCode |-> 0, Message |-> NoMessage,
     base |-> origin, is |-> {}, cause |-> origin, apiErr |-> NoAPIError]

\* fmt.Errorf("text: %w", err)
WrapErr(text, err) ==
    [kind |-> "wrapError", StatusCode |-> 0, Message |-> NoMessage,
     base |-> text, is |-> err.is, cause |-> err.cause, apiErr |-> err.apiErr]

\* fmt.Errorf("%w: %w", first, second); a nil operand wraps nothing.
WrapBoth(first, second) ==
    [kind |-> "wrapError", StatusCode |-> 0, Message |-> NoMessage,
     base |-> first.base, is |-> first.is \cup second.is,
     cause |-> second.cause,
     apiErr |-> IF first.apiErr.found THEN first.apiErr ELSE second.apiErr]

\* errors.Is(err, sentinel)
ErrorsIs(err, sentinel) == sentinel \in err.is

\* BaseErr without the case for 429.
BaseErrNo429(statusCode) ==
    CASE statusCode = 400 -> SentinelErr("ErrBadRequest")
      [] statusCode = 401 -> SentinelErr("ErrUnauthorized")
      [] statusCode = 403 -> SentinelErr("ErrForbidden")
      [] statusCode = 404 -> SentinelErr("ErrNotFound")
      [] statusCode = 409 -> SentinelErr("ErrConflict")
      [] statusCode = 500 -> SentinelErr("ErrInternalServer")
      [] OTHER ->
           IF statusCode >= 400 /\ statusCode < 500
             THEN NewErr("unexpected client error")
             ELSE IF statusCode >= 500
                    THEN NewErr("unexpected server error")
                    ELSE NewErr("unexpected status code")

\* The switch of mapHTTPError: the base error of a status code.
BaseErr(statusCode) ==
    CASE statusCode = 400 -> SentinelErr("ErrBadRequest")
      [] statusCode = 401 -> SentinelErr("ErrUnauthorized")
      [] statusCode = 403 -> SentinelErr("ErrForbidden")
      [] statusCode = 404 -> SentinelErr("ErrNotFound")
      [] statusCode = 409 -> SentinelErr("ErrConflict")
      [] statusCode = 429 -> SentinelErr("ErrRateLimited")
      [] statusCode = 500 -> SentinelErr("ErrInternalServer")
      [] OTHER ->
           IF statusCode >= 400 /\ statusCode < 500
             THEN NewErr("unexpected client error")
             ELSE IF statusCode >= 500
                    THEN NewErr("unexpected server error")
                    ELSE NewErr("unexpected status code")

\* func mapHTTPError(statusCode int, apiMsg string, underlyingErr error) error
mapHTTPError(statusCode, apiMsg, underlyingErr) ==
    LET msg == IF apiMsg.text = "" THEN StatusMessage(statusCode, FALSE) ELSE apiMsg
        wrapped == WrapBoth(BaseErr(statusCode), underlyingErr)
    IN  [kind |-> "APIError", StatusCode |-> statusCode, Message |-> msg,
         base |-> wrapped.base, is |-> wrapped.is, cause |-> wrapped.cause,
         apiErr |-> [found |-> TRUE, StatusCode |-> statusCode]]

\* func IsAPIErrorStatus(err error, statusCode int) bool: errors.As walks
\* the chain of err, so an *APIError wrapped by a caller is found too.
IsAPIErrorStatus(err, statusCode) ==
    err.apiErr.found /\ err.apiErr.StatusCode = statusCode

(***************************************************************************)
(* Response bodies.  A body is a sequence of JSON tokens:                  *)
(*   "O"    the object {}                 "OE"   {"error":"boom"}          *)
(*   "OT1"  {"token":"T1"}                "OT2"  {"token":"T2"}            *)
(*   "N"    null                          "A"    the array []              *)
(*   "w"    one whitespace byte           "W"    1 MiB of whitespace       *)
(*   "x"    a byte that is no JSON                                         *)
(*   "OL"   {"token":"T1","pad":"..."}, an object longer than 1 MiB        *)
(* Bodies are built from the tokens of BodyTokens; "OL" comes alone.       *)
(***************************************************************************)
BodyTokens == {"O", "OE", "OT1", "OT2", "N", "A", "w", "W", "x"}

\* Bodies whose JSON value reaches beyond the first 1 MiB.
LongBodies == {<<"OL">>}

\* The size of a token in bytes.
TokenSize(t) ==
    CASE t = "O" -> 2
      [] t = "OE" -> 16
      [] t = "OT1" -> 14
      [] t = "OT2" -> 14
      [] t = "N" -> 4
      [] t = "A" -> 2
      [] t = "w" -> 1
      [] t = "x" -> 1
      [] t = "W" -> maxResponseBody
      [] t = "OL" -> maxResponseBody + 14

RECURSIVE BodyLen(_)
\* len(respBytes)
BodyLen(body) ==
    IF body = <<>> THEN 0 ELSE TokenSize(Head(body)) + BodyLen(Tail(body))

\* What is left of a token cut in the middle: whitespace stays whitespace,
\* a cut value is no JSON.
CutToken(t) == IF t = "W" THEN "w" ELSE "x"

RECURSIVE ReadLimited(_, _)
\* io.ReadAll(io.LimitReader(resp.Body, n)): the first n bytes of the body.
ReadLimited(body, n) ==
    IF body = <<>> \/ n <= 0
      THEN <<>>
      ELSE IF TokenSize(Head(body)) <= n
             THEN <<Head(body)>> \o ReadLimited(Tail(body), n - TokenSize(Head(body)))
             ELSE <<CutToken(Head(body))>>

\* len(respBytes) of the bytes ReadLimited(body, n) stands for.
ReadLen(body, n) == IF BodyLen(body) > n THEN n ELSE BodyLen(body)

RECURSIVE SkipSpace(_)
\* The body without its leading whitespace.
SkipSpace(body) ==
    IF body # <<>> /\ Head(body) \in {"w", "W"} THEN SkipSpace(Tail(body)) ELSE body

\* The JSON value a body holds: a single value between optional
\* whitespace; "invalid" for anything else, the empty body included.
JSONValue(body) ==
    LET rest == SkipSpace(body)
    IN  IF rest # <<>> /\ Head(rest) \in {"O", "OE", "OT1", "OT2", "N", "A", "OL"}
             /\ SkipSpace(Tail(rest)) = <<>>
          THEN Head(rest)
          ELSE "invalid"

\* The value of a response target that nothing was decoded into.
ZeroTarget == [set |-> FALSE, Token |-> "", Error |-> ""]

\* Response targets: LoginResponse, ErrorResponse, the other structs
\* (ListDatabasesResponse, ListTablesResponse, CreateRecordResponse), a map
\* (Records.Get) and a slice (Records.List).
TargetKinds == {"LoginResponse", "ErrorResponse", "struct", "map", "slice"}

\* json.Unmarshal(respBytes, target): ok, and the target afterwards.  null
\* decodes into every target and leaves it as it was; an object decodes
\* into a struct or a map, an array into a slice; unknown fields are
\* ignored.
Unmarshal(respBytes, target) ==
    LET v == JSONValue(respBytes)
    IN  IF v = "invalid" THEN [ok |-> FALSE, value |-> ZeroTarget]
        ELSE IF v = "N" THEN [ok |-> TRUE, value |-> ZeroTarget]
        ELSE IF v = "A"
          THEN [ok |-> target = "slice",
                value |-> [ZeroTarget EXCEPT !.set = (target = "slice")]]
        ELSE IF target = "slice" THEN [ok |-> FALSE, value |-> ZeroTarget]
        ELSE [ok |-> TRUE,
              value |->
                [set |-> TRUE,
                 Token |-> IF target # "LoginResponse" THEN ""
                           ELSE IF v \in {"OT1", "OL"} THEN "T1"
                           ELSE IF v = "OT2" THEN "T2" ELSE "",
                 Error |-> IF target = "ErrorResponse" /\ v = "OE"
                             THEN "boom" ELSE ""]]

(***************************************************************************)
(* Construction of the client (client.go, options.go).                     *)
(*                                                                         *)
(* A URL string is a sequence of pieces: "/" is a piece of its own, the    *)
(* other pieces are runs of characters without "/".  "http:" and "HTTPS:"  *)
(* end with their colon, "localhost:8080" has its colon inside, and        *)
(* "example.com" has none, which is all that url.ParseRequestURI looks at  *)
(* in them.  A parsed scheme is the sequence of the pieces it is made of.  *)
(***************************************************************************)
URLPieces == {"http:", "HTTPS:", "/", "localhost:8080", "example.com"}

\* The base URLs handed to NewClient.
BaseURLs == UNION {[1..n -> URLPieces] : n \in 0..MaxURLLen}

\* "http://localhost:8080", the base URL of NewClient's doc comment.
DefaultBaseURL == <<"http:", "/", "/", "localhost:8080">>

\* A piece that holds a colon.
HasColon(piece) == piece \in {"http:", "HTTPS:", "localhost:8080"}

\* What a piece with a colon holds before the colon, and after it.
BeforeColon(piece) ==
    CASE piece = "http:" -> "http"
      [] piece = "HTTPS:" -> "HTTPS"
      [] piece = "localhost:8080" -> "localhost"

AfterColon(piece) == IF piece = "localhost:8080" THEN <<"8080">> ELSE <<>>

\* strings.ToLower of the parts of a scheme.
ToLower(scheme) ==
    [i \in 1..Len(scheme) |-> IF scheme[i] = "HTTPS" THEN "https" ELSE scheme[i]]

RECURSIVE LeadingNames(_)
\* How many pieces at the start are made of scheme characters alone and
\* hold no colon.
LeadingNames(rawURL) ==
    IF rawURL # <<>> /\ Head(rawURL) = "example.com"
      THEN 1 + LeadingNames(Tail(rawURL)) ELSE 0

\* url.getScheme: the scheme is what precedes the first colon if only
\* scheme characters precede it; there is none if "/" comes first or no
\* colon at all.
getScheme(rawURL) ==
    LET k == LeadingNames(rawURL)
    IN  IF k = Len(rawURL) \/ ~HasColon(rawURL[k + 1])
          THEN [scheme |-> <<>>, rest |-> rawURL]
          ELSE [scheme |-> SubSeq(rawURL, 1, k) \o <<BeforeColon(rawURL[k + 1])>>,
                rest |-> AfterColon(rawURL[k + 1])
                           \o SubSeq(rawURL, k + 2, Len(rawURL))]

\* The zero url.URL.
NoURL ==
    [Scheme |-> <<>>, Opaque |-> <<>>, Host |-> <<>>, Path |-> <<>>,
     OmitHost |-> FALSE]

\* The index of the first "/" of s, 0 if it has none.
IndexSlash(s) ==
    IF \E i \in 1..Len(s) : s[i] = "/"
      THEN CHOOSE i \in 1..Len(s) : s[i] = "/" /\ \A j \in 1..(i - 1) : s[j] # "/"
      ELSE 0

\* url.parseHost accepts the port: what follows the last colon of the
\* authority is digits only.
ValidPort(authority) ==
    ~(/\ authority # <<>>
      /\ authority[Len(authority)] = "example.com"
      /\ \E i \in 1..Len(authority) : HasColon(authority[i]))

\* url.ParseRequestURI(rawURL): the error and the parsed URL.
ParseRequestURI(rawURL) ==
    LET s == getScheme(rawURL)
        u == [NoURL EXCEPT !.Scheme = ToLower(s.scheme)]
        rest == s.rest
    IN  IF rawURL = <<>>
          THEN [err |-> NewErr("empty url"), url |-> NoURL]
        ELSE IF ~HasPrefix(rest, <<"/">>)
          THEN IF u.Scheme # <<>>
                 THEN [err |-> NoErr, url |-> [u EXCEPT !.Opaque = rest]]
                 ELSE [err |-> NewErr("invalid URI for request"), url |-> NoURL]
        ELSE IF u.Scheme # <<>> /\ HasPrefix(rest, <<"/", "/">>)
          THEN LET after == SubSeq(rest, 3, Len(rest))
                   i == IndexSlash(after)
                   authority == IF i = 0 THEN after ELSE SubSeq(after, 1, i - 1)
                   path == IF i = 0 THEN <<>> ELSE SubSeq(after, i, Len(after))
               IN  IF ~ValidPort(authority)
                     THEN [err |-> NewErr("invalid port after host"), url |-> NoURL]
                     ELSE [err |-> NoErr,
                           url |-> [u EXCEPT !.Host = authority, !.Path = path]]
        ELSE [err |-> NoErr,
              url |-> [u EXCEPT !.Path = rest, !.OmitHost = (u.Scheme # <<>>)]]

\* func (u *URL) String() string
URLString(u) ==
    (IF u.Scheme # <<>> THEN u.Scheme \o <<":">> ELSE <<>>)
    \o (IF u.Opaque # <<>>
          THEN u.Opaque
          ELSE (IF u.Scheme # <<>> /\ ~u.OmitHost /\ (u.Host # <<>> \/ u.Path # <<>>)
                  THEN <<"/", "/">> ELSE <<>>)
               \o u.Host \o u.Path)

\* A *http.Client: nil, or a client with its Timeout in seconds (0: none).
NilHTTPClient == [nil |-> TRUE, Timeout |-> 0]

HTTPClients == {NilHTTPClient, [nil |-> FALSE, Timeout |-> 30]}

\* time.Duration arguments of WithRequestTimeout, in seconds.
Durations == {0, 5}

\* The options handed to NewClient, and the lists of them.
Options ==
    {[kind |-> "WithHTTPClient", hc |-> hc, d |-> 0] : hc \in HTTPClients}
    \cup {[kind |-> "WithRequestTimeout", hc |-> NilHTTPClient, d |-> d] : d \in Durations}

OptionLists == UNION {[1..n -> Options] : n \in 0..MaxOpts}

\* options := clientOptions{requestTimeout: defaultTimeout}
DefaultOptions ==
    [err |-> NoErr, httpClient |-> NilHTTPClient, requestTimeout |-> defaultTimeout]

\* func WithHTTPClient(hc *http.Client) ClientOption, applied to o.
WithHTTPClient(hc, o) ==
    IF hc.nil
      THEN [o EXCEPT !.err = NewErr("http client cannot be nil")]
      ELSE [o EXCEPT !.httpClient = hc]

\* func WithRequestTimeout(d time.Duration) ClientOption, applied to o.
WithRequestTimeout(d, o) ==
    IF d <= 0
      THEN [o EXCEPT !.err = NewErr("request timeout must be positive")]
      ELSE [o EXCEPT !.requestTimeout = d]

RECURSIVE ApplyOptions(_, _)
\* for _, opt := range opts { if err := opt(&options); err != nil { return } }
ApplyOptions(opts, o) ==
    IF opts = <<>> \/ o.err # NoErr THEN o
    ELSE ApplyOptions(Tail(opts),
                      IF Head(opts).kind = "WithHTTPClient"
                        THEN WithHTTPClient(Head(opts).hc, o)
                        ELSE WithRequestTimeout(Head(opts).d, o))

\* No client: NewClient returned nil.
NoClient == [baseURL |-> NoURL, httpClient |-> NilHTTPClient]

\* func NewClient(baseURL string, opts ...ClientOption) (*Client, error)
NewClient(rawBaseURL, opts) ==
    LET parsed == ParseRequestURI(TrimSuffix(rawBaseURL, <<"/">>) \o <<"/">>)
        options == ApplyOptions(opts, DefaultOptions)
    IN  IF rawBaseURL = <<>>
          THEN [err |-> NewErr("baseURL cannot be empty"), client |-> NoClient]
        ELSE IF parsed.err # NoErr
          THEN [err |-> WrapErr("invalid baseURL", parsed.err), client |-> NoClient]
        ELSE IF parsed.url.Scheme \notin {<<"http">>, <<"https">>}
          THEN [err |-> NewErr("invalid baseURL scheme"), client |-> NoClient]
        ELSE IF options.err # NoErr
          THEN [err |-> WrapErr("failed to apply client option", options.err),
                client |-> NoClient]
        ELSE [err |-> NoErr,
              client |->
                [baseURL |-> parsed.url,
                 httpClient |-> IF options.httpClient.nil
                                  THEN [nil |-> FALSE,
                                        Timeout |-> options.requestTimeout]
                                  ELSE options.httpClient]]

(***************************************************************************)
(* The request executor (request.go).                                      *)
(***************************************************************************)
\* c.baseURL.String()
baseURL == URLString(client.fields.baseURL)

\* No request: the call returned before it built one.
NoRequest ==
    [method |-> "", url |-> <<>>, Accept |-> "", ContentType |-> "",
     Authorization |-> <<>>]

\* json.Marshal(requestBody) fails.
MarshalFails(requestBody) == requestBody = "unmarshalable"

\* http.NewRequestWithContext(ctx, method, fullURL, body) fails: a nil
\* context (the URLs built of the names drawn here all parse).
NewRequestFails(ctx, fullURL) == ctx = "nilctx"

\* RequiresAuth holding for every path, the auth paths included.
RequiresAuthEveryPath(apiPath) == TRUE

\* The condition of doRequest's auth check: the path lies under the
\* versioned prefix and is no auth path.
RequiresAuth(apiPath) ==
    /\ HasPrefix(apiPath, TrimPrefix(apiVersionPath, <<"/">>))
    /\ ~HasPrefix(apiPath, <<"auth", "/">>)

\* doRequest, steps 1 to 4: the request it hands to the transport, or the
\* error it returns without calling the transport.
doRequestBuild(token, ctx, method, apiPath, requestBody) ==
    LET fullURL == baseURL \o TrimPrefix(apiPath, <<"/">>)
        req == [method |-> method, url |-> fullURL,
                Accept |-> "application/json",
                ContentType |-> IF requestBody # "nil" THEN "application/json" ELSE "",
                Authorization |-> <<>>]
    IN  IF requestBody # "nil" /\ MarshalFails(requestBody)
          THEN [err |-> WrapErr("failed to marshal request body", CauseErr("marshal")),
                req |-> NoRequest]
        ELSE IF NewRequestFails(ctx, fullURL)
          THEN [err |-> WrapErr("failed to create request", CauseErr("request")),
                req |-> NoRequest]
        ELSE IF RequiresAuth(apiPath)
          THEN IF token = ""
                 THEN [err |-> SentinelErr("ErrAuthTokenMissing"), req |-> NoRequest]
                 ELSE [err |-> NoErr,
                       req |-> [req EXCEPT !.Authorization = <<"Bearer ", token>>]]
        ELSE [err |-> NoErr, req |-> req]

\* What the transport gives back: a failure, or a response with a status
\* code and a body whose read may fail.
TransportFailure == [failed |-> TRUE, StatusCode |-> 0, Body |-> <<>>, readErr |-> FALSE]

\* doRequest, step 6: the error for a response with status >= 400.
errorStatus(resp) ==
    IF resp.readErr
      THEN mapHTTPError(resp.StatusCode, ServerMessage("failed to read error body"),
                        CauseErr("read"))
      ELSE
        LET respBytes == ReadLimited(resp.Body, maxResponseBody)
            apiErrResp == Unmarshal(respBytes, "ErrorResponse")
            errMsg == IF apiErrResp.ok /\ apiErrResp.value.Error # ""
                        THEN ServerMessage(apiErrResp.value.Error)
                        ELSE StatusMessage(resp.StatusCode,
                                           ReadLen(resp.Body, maxResponseBody) > 0
                                             /\ ReadLen(resp.Body, maxResponseBody)
                                                  < ExcerptLimit)
        IN  mapHTTPError(resp.StatusCode, errMsg, NoErr)

\* decodeSuccess taking an empty body for a success with nothing to decode.
decodeSuccessEmptyOK(resp, responseBody) ==
    IF resp.readErr
      THEN [err |-> WrapBoth(SentinelErr("ErrInvalidResponse"), CauseErr("read")),
            target |-> ZeroTarget]
      ELSE
        LET respBytes == ReadLimited(resp.Body, maxResponseBody)
            dec == Unmarshal(respBytes, responseBody)
        IN  IF respBytes = <<>> THEN [err |-> NoErr, target |-> ZeroTarget]
            ELSE IF ~dec.ok
              THEN [err |-> WrapBoth(SentinelErr("ErrInvalidResponse"), CauseErr("decode")),
                    target |-> ZeroTarget]
              ELSE [err |-> NoErr, target |-> dec.value]

\* decodeSuccess decoding the whole body, however long.
decodeSuccessWholeBody(resp, responseBody) ==
    IF resp.readErr
      THEN [err |-> WrapBoth(SentinelErr("ErrInvalidResponse"), CauseErr("read")),
            target |-> ZeroTarget]
      ELSE
        LET dec == Unmarshal(resp.Body, responseBody)
        IN  IF ~dec.ok
              THEN [err |-> WrapBoth(SentinelErr("ErrInvalidResponse"), CauseErr("decode")),
                    target |-> ZeroTarget]
              ELSE [err |-> NoErr, target |-> dec.value]

\* doRequest, step 7: decoding the body of a success response into the
\* response target.
decodeSuccess(resp, responseBody) ==
    IF resp.readErr
      THEN [err |-> WrapBoth(SentinelErr("ErrInvalidResponse"), CauseErr("read")),
            target |-> ZeroTarget]
      ELSE
        LET respBytes == ReadLimited(resp.Body, maxResponseBody)
            dec == Unmarshal(respBytes, responseBody)
        IN  IF ~dec.ok
              THEN [err |-> WrapBoth(SentinelErr("ErrInvalidResponse"), CauseErr("decode")),
                    target |-> ZeroTarget]
              ELSE [err |-> NoErr, target |-> dec.value]

\* doRequestFinish taking only a status above 400 for an error status.
doRequestFinishAbove400(resp, responseBody) ==
    IF resp.failed
      THEN [err |-> WrapErr("http request failed", CauseErr("transport")),
            target |-> ZeroTarget]
    ELSE IF resp.StatusCode > 400
      THEN [err |-> errorStatus(resp), target |-> ZeroTarget]
    ELSE IF responseBody # "nil" /\ resp.StatusCode # StatusNoContent
      THEN decodeSuccess(resp, responseBody)
    ELSE [err |-> NoErr, target |-> ZeroTarget]

\* doRequestFinish decoding the body of a 204 response like any other.
doRequestFinishDecode204(resp, responseBody) ==
    IF resp.failed
      THEN [err |-> WrapErr("http request failed", CauseErr("transport")),
            target |-> ZeroTarget]
    ELSE IF resp.StatusCode >= 400
      THEN [err |-> errorStatus(resp), target |-> ZeroTarget]
    ELSE IF responseBody # "nil"
      THEN decodeSuccess(resp, responseBody)
    ELSE [err |-> NoErr, target |-> ZeroTarget]

\* doRequestFinish reporting a transport failure as a 503 answer.
doRequestFinishTransportAs503(resp, responseBody) ==
    IF resp.failed
      THEN [err |-> mapHTTPError(503, StatusMessage(503, FALSE), CauseErr("transport")),
            target |-> ZeroTarget]
    ELSE IF resp.StatusCode >= 400
      THEN [err |-> errorStatus(resp), target |-> ZeroTarget]
    ELSE IF responseBody # "nil" /\ resp.StatusCode # StatusNoContent
      THEN decodeSuccess(resp, responseBody)
    ELSE [err |-> NoErr, target |-> ZeroTarget]

\* doRequestFinish taking a 404 answer to a request that expects no body
\* for success.
doRequestFinishNotFoundAsDone(resp, responseBody) ==
    IF resp.failed
      THEN [err |-> WrapErr("http request failed", CauseErr("transport")),
            target |-> ZeroTarget]
    ELSE IF resp.StatusCode >= 400 /\ ~(resp.StatusCode = 404 /\ responseBody = "nil")
      THEN [err |-> errorStatus(resp), target |-> ZeroTarget]
    ELSE IF responseBody # "nil" /\ resp.StatusCode # StatusNoContent
      THEN decodeSuccess(resp, responseBody)
    ELSE [err |-> NoErr, target |-> ZeroTarget]

\* doRequest, steps 5 to 7: the error it returns and the response target
\* afterwards, given what the transport gave back.
doRequestFinish(resp, responseBody) ==
    IF resp.failed
      THEN [err |-> WrapErr("http request failed", CauseErr("transport")),
            target |-> ZeroTarget]
    ELSE IF resp.StatusCode >= 400
      THEN [err |-> errorStatus(resp), target |-> ZeroTarget]
    ELSE IF responseBody # "nil" /\ resp.StatusCode # StatusNoContent
      THEN decodeSuccess(resp, responseBody)
    ELSE [err |-> NoErr, target |-> ZeroTarget]

(***************************************************************************)
(* Client helpers (client.go).                                             *)
(***************************************************************************)
\* func (c *Client) getAPIPath(subPath string) string
getAPIPath(subPath) == apiVersionPath \o <<"/">> \o TrimPrefix(subPath, <<"/">>)

\* func (c *Client) SetAuthToken(token string): the token cached afterwards.
SetAuthToken(token) == token

\* func (c *Client) ClearAuthToken(): the token cached afterwards.
ClearAuthToken == ""

(***************************************************************************)
(* The services.  Each method is modelled by the part before its call of   *)
(* doRequest: the error it returns at once, or the arguments it passes.    *)
(***************************************************************************)
\* The method returns this error without calling doRequest.
Reject(text) ==
    [err |-> NewErr(text), method |-> "", apiPath |-> <<>>,
     requestBody |-> "nil", responseBody |-> "nil"]

\* The method calls doRequest(ctx, method, apiPath, requestBody, responseBody).
Request(method, apiPath, requestBody, responseBody) ==
    [err |-> NoErr, method |-> method, apiPath |-> apiPath,
     requestBody |-> requestBody, responseBody |-> responseBody]

\* fmt.Sprintf("%d", recordID)
FormatInt(recordID) ==
    CASE recordID = -1 -> "-1"
      [] recordID = 0 -> "0"
      [] recordID = 1 -> "1"
      [] recordID = 2 -> "2"

\* func (s *AuthService) Signup(ctx, email, password string) error
Signup(email, password) ==
    IF email = "" \/ password = ""
      THEN Reject("email and password cannot be empty")
      ELSE Request("POST", <<"auth", "/", "signup">>, "ok", "nil")

\* func (s *AuthService) Login(ctx, email, password string) (string, error)
Login(email, password) ==
    IF email = "" \/ password = ""
      THEN Reject("email and password cannot be empty")
      ELSE Request("POST", <<"auth", "/", "login">>, "ok", "LoginResponse")

\* func (s *DatabaseService) Create(ctx, dbName string) error
DatabaseCreate(dbName) ==
    IF TrimSpace(dbName) = ""
      THEN Reject("database name cannot be empty")
      ELSE Request("POST", getAPIPath(<<"databases">>), "ok", "nil")

\* func (s *DatabaseService) List(ctx) ([]string, error)
DatabaseList == Request("GET", getAPIPath(<<"databases">>), "nil", "struct")

\* func (s *DatabaseService) Delete(ctx, dbName string) error
DatabaseDelete(dbName) ==
    IF TrimSpace(dbName) = ""
      THEN Reject("database name cannot be empty")
      ELSE Request("DELETE", getAPIPath(<<"databases", "/", dbName>>), "nil", "nil")

\* func (s *DatabaseService) DefineSchema(ctx, dbName string, schema SchemaPayload) error
DefineSchema(dbName, tableName, columns) ==
    IF TrimSpace(dbName) = "" THEN Reject("database name cannot be empty")
    ELSE IF TrimSpace(tableName) = "" THEN Reject("table name cannot be empty")
    ELSE IF columns = 0 THEN Reject("schema must contain at least one column")
    ELSE Request("POST", getAPIPath(<<"databases", "/", dbName, "/", "schema">>),
                 "ok", "nil")

\* func (s *TableService) List(ctx, dbName string) ([]string, error)
TableList(dbName) ==
    IF TrimSpace(dbName) = ""
      THEN Reject("database name cannot be empty")
      ELSE Request("GET", getAPIPath(<<"databases", "/", dbName, "/", "tables">>),
                   "nil", "struct")

\* func (s *TableService) Delete(ctx, dbName, tableName string) error
TableDelete(dbName, tableName) ==
    IF TrimSpace(dbName) = "" \/ TrimSpace(tableName) = ""
      THEN Reject("database name and table name cannot be empty")
      ELSE Request("DELETE",
                   getAPIPath(<<"databases", "/", dbName, "/", "tables", "/", tableName>>),
                   "nil", "nil")

\* func (s *RecordService) buildRecordPath(dbName, tableName string) (string, error)
buildRecordPath(dbName, tableName) ==
    IF TrimSpace(dbName) = "" \/ TrimSpace(tableName) = ""
      THEN [err |-> NewErr("database name and table name cannot be empty"),
            path |-> <<>>]
      ELSE [err |-> NoErr,
            path |-> getAPIPath(<<"databases", "/", dbName, "/", "tables", "/",
                                  tableName, "/", "records">>)]

\* buildSingleRecordPath refusing only a negative record ID.
buildSingleRecordPathNegative(dbName, tableName, recordID) ==
    LET base == buildRecordPath(dbName, tableName)
    IN  IF base.err # NoErr THEN base
        ELSE IF recordID < 0
          THEN [err |-> NewErr("record ID must be positive"), path |-> <<>>]
          ELSE [err |-> NoErr, path |-> base.path \o <<"/", FormatInt(recordID)>>]

\* func (s *RecordService) buildSingleRecordPath(dbName, tableName string, recordID int64)
buildSingleRecordPath(dbName, tableName, recordID) ==
    LET base == buildRecordPath(dbName, tableName)
    IN  IF base.err # NoErr THEN base
        ELSE IF recordID <= 0
          THEN [err |-> NewErr("record ID must be positive"), path |-> <<>>]
          ELSE [err |-> NoErr, path |-> base.path \o <<"/", FormatInt(recordID)>>]

\* func (s *RecordService) Create(ctx, dbName, tableName string, recordData map) (int64, error)
RecordCreate(dbName, tableName, recordData) ==
    IF recordData = "empty" THEN Reject("record data cannot be empty")
    ELSE LET p == buildRecordPath(dbName, tableName)
         IN  IF p.err # NoErr THEN Reject(p.err.base)
             ELSE Request("POST", p.path, recordData, "struct")

\* url.Values of the filters with a non-empty key, encoded.
QueryOf(filters) == IF filters = "color" THEN <<"?", "color=Blue">> ELSE <<>>

\* func (s *RecordService) List(ctx, dbName, tableName string, filters map) ([]map, error)
RecordList(dbName, tableName, filters) ==
    LET p == buildRecordPath(dbName, tableName)
    IN  IF p.err # NoErr THEN Reject(p.err.base)
        ELSE Request("GET", p.path \o QueryOf(filters), "nil", "slice")

\* func (s *RecordService) Get(ctx, dbName, tableName string, recordID int64) (map, error)
RecordGet(dbName, tableName, recordID) ==
    LET p == buildSingleRecordPath(dbName, tableName, recordID)
    IN  IF p.err # NoErr THEN Reject(p.err.base)
        ELSE Request("GET", p.path, "nil", "map")

\* func (s *RecordService) Update(ctx, dbName, tableName string, recordID int64, updateData map) error
RecordUpdate(dbName, tableName, recordID, updateData) ==
    IF updateData = "empty" THEN Reject("update data cannot be empty")
    ELSE LET p == buildSingleRecordPath(dbName, tableName, recordID)
         IN  IF p.err # NoErr THEN Reject(p.err.base)
             ELSE Request("PUT", p.path, updateData, "nil")

\* func (s *RecordService) Delete(ctx, dbName, tableName string, recordID int64) error
RecordDelete(dbName, tableName, recordID) ==
    LET p == buildSingleRecordPath(dbName, tableName, recordID)
    IN  IF p.err # NoErr THEN Reject(p.err.base)
        ELSE Request("DELETE", p.path, "nil", "nil")

\* LoginFinish returning the token of a successful login without caching it.
LoginFinishNotCached(err, result) ==
    IF err # NoErr
      THEN [authToken |-> ClearAuthToken, token |-> ""]
      ELSE [authToken |-> ClearAuthToken, token |-> result.Token]

\* The part of Login after doRequest: the token cached afterwards and the
\* token returned.
LoginFinish(err, result) ==
    IF err # NoErr
      THEN [authToken |-> ClearAuthToken, token |-> ""]
      ELSE [authToken |-> SetAuthToken(result.Token), token |-> result.Token]

(***************************************************************************)
(* The transport (http.Client.Do): the environment of the client.          *)
(***************************************************************************)
Bodies == UNION {[1..n -> BodyTokens] : n \in 0..MaxBodyLen} \cup LongBodies

Responses ==
    {TransportFailure}
      \cup {[failed |-> FALSE, StatusCode |-> s, Body |-> b, readErr |-> FALSE] :
              s \in Statuses, b \in Bodies}
      \cup {[failed |-> FALSE, StatusCode |-> s, Body |-> <<>>, readErr |-> TRUE] :
              s \in Statuses}

\* What a returned call keeps of the response it got: the status, whether
\* the transport or the body read failed, the JSON value of the bytes
\* read, whether the body was empty, whether it was longer than the cap
\* and whether the cap fell inside its JSON value.
NoResponse ==
    [got |-> FALSE, failed |-> FALSE, StatusCode |-> 0, readErr |-> FALSE,
     read |-> "invalid", empty |-> TRUE, cut |-> FALSE, inValue |-> FALSE]

Seen(resp) ==
    [got |-> TRUE, failed |-> resp.failed, StatusCode |-> resp.StatusCode,
     readErr |-> resp.readErr,
     read |-> JSONValue(ReadLimited(resp.Body, maxResponseBody)),
     empty |-> resp.Body = <<>>,
     cut |-> BodyLen(resp.Body) > maxResponseBody,
     inValue |-> resp.Body \in LongBodies]

(***************************************************************************)
(* The state.                                                              *)
(*   authToken  Client.authToken, as a read of the field gives it          *)
(*   words      the two words of memory that hold Client.authToken, and    *)
(*              which caller stored each                                   *)
(*   pc         per caller: "idle", "sent" while its request is with the   *)
(*              transport, "storing" between the stores of a token write   *)
(*              that other callers' steps may fall between                 *)
(*   call       per caller: the call whose request is with the transport   *)
(*   ret        per caller: what its last call returned and what the call  *)
(*              did on the way; cleared while a request is with the        *)
(*              transport                                                  *)
(*   trail      how far the run is into the sequence "successful Login,    *)
(*              failed Login" with no token set in between                 *)
(*   client     what NewClient was called with and what it returned        *)
(*   server     the records the server holds, those deleted through the    *)
(*              client, and the last delete request the server handled     *)
(***************************************************************************)
\* A Go string is a data pointer and a length.  The tokens drawn are all
\* of one length.
PtrOf(s) == IF s = "" THEN "nil" ELSE s

LenOf(s) == IF s = "" THEN 0 ELSE 2

\* The words after caller c stored string s.
WordsOf(s, c) == [ptr |-> PtrOf(s), len |-> LenOf(s), ptrBy |-> c, lenBy |-> c]

\* The string two words denote: "torn" when the length is not that of the
\* data the pointer leads to.
StringOf(w) ==
    IF w.len = 0 THEN ""
    ELSE IF LenOf(IF w.ptr = "nil" THEN "" ELSE w.ptr) # w.len THEN "torn"
    ELSE w.ptr

\* The arguments of a call: given names the ones its method takes.  opts
\* are the ListRecordsOptions the caller of Records.List holds: the method
\* has a parameter for their Filters alone.
NoArgs ==
    [given |-> {}, ctx |-> "ctx", email |-> "", password |-> "", dbName |-> "",
     tableName |-> "", recordID |-> 0, data |-> "", columns |-> 0, filters |-> "",
     opts |-> NoListOptions]

\* timeout is the Timeout of the http.Client the request was handed to;
\* pending are the words of a token write still to be stored.
NoCall ==
    [op |-> "", args |-> NoArgs, req |-> NoRequest, responseBody |-> "nil",
     tokenBefore |-> "", timeout |-> 0, pending |-> {}]

NoRet ==
    [op |-> "", args |-> NoArgs, err |-> NoErr, token |-> "", target |-> ZeroTarget,
     responseBody |-> "nil", sent |-> 0, req |-> NoRequest,
     rejected |-> FALSE, tokenBefore |-> "", resp |-> NoResponse]

ProtectedOps ==
    {"Databases.Create", "Databases.List", "Databases.Delete",
     "Databases.DefineSchema", "Tables.List", "Tables.Delete",
     "Records.Create", "Records.List", "Records.Get", "Records.Update",
     "Records.Delete"}

AuthOps == {"Auth.Signup", "Auth.Login"}

\* The client variable after NewClient(rawBaseURL, opts).
Constructed(rawBaseURL, opts) ==
    LET new == NewClient(rawBaseURL, opts)
    IN  [made |-> IF new.err = NoErr THEN "ok" ELSE "failed",
         rawBaseURL |-> rawBaseURL, opts |-> opts, err |-> new.err,
         fields |-> new.client]

\* No delete request handled yet.
NoDelete == [id |-> 0, existed |-> FALSE, gone |-> FALSE]

\* Everything but the client and the server's records, after NewClient.
InitCalls ==
    /\ authToken = ""
    /\ words = WordsOf("", 0)
    /\ pc = [c \in Callers |-> "idle"]
    /\ call = [c \in Callers |-> NoCall]
    /\ ret = [c \in Callers |-> NoRet]
    /\ trail = "none"

\* The state after NewClient("http://localhost:8080"), with a server that
\* holds record 1.
Init ==
    /\ InitCalls
    /\ client = Constructed(DefaultBaseURL, <<>>)
    /\ server = [records |-> {1}, deleted |-> {}, last |-> NoDelete]

\* The trail after a Login returned.
TrailAfterLogin(err, token) ==
    IF err = NoErr
      THEN IF token # "" THEN "loggedIn" ELSE "none"
      ELSE IF trail \in {"loggedIn", "loginFailed"} THEN "loginFailed" ELSE trail

\* TokenAfterCall clearing the token when any call is answered 401.
TokenAfterCallClearOn401(op, token, err, result) ==
    IF op = "Auth.Login" THEN LoginFinish(err, result).authToken
    ELSE IF ErrorsIs(err, "ErrUnauthorized") THEN ClearAuthToken
    ELSE token

\* Client.authToken after a call of op that found token cached and whose
\* doRequest returned err and result: Login alone writes it.
TokenAfterCall(op, token, err, result) ==
    IF op = "Auth.Login" THEN LoginFinish(err, result).authToken ELSE token

\* The call of op by caller c leaves token cached: Login stores it.  With
\* one goroutine using the client the two word stores of the assignment
\* are one step; where two goroutines write, StoreWord takes their place.
StoreToken(c, op, token) ==
    /\ authToken' = token
    /\ words' = IF op = "Auth.Login" \/ token # authToken
                  THEN WordsOf(token, c) ELSE words

\* Caller c, idle, calls service method op with arguments ctx and args; the
\* method's part before doRequest gave plan: the method returns at once, or
\* doRequest returns before the transport is called, or the request goes
\* to the transport.
Begin(c, op, ctx, args, plan) ==
    /\ client.made = "ok"
    /\ UNCHANGED <<client, server>>
    /\ IF plan.err # NoErr
         THEN /\ ret' = [ret EXCEPT ![c] =
                           [NoRet EXCEPT !.op = op, !.err = plan.err,
                                         !.args = [args EXCEPT !.ctx = ctx],
                                         !.rejected = TRUE,
                                         !.tokenBefore = authToken]]
              /\ trail' = IF op = "Auth.Login" THEN TrailAfterLogin(plan.err, "") ELSE trail
              /\ UNCHANGED <<authToken, words, pc, call>>
         ELSE LET b == doRequestBuild(authToken, ctx, plan.method, plan.apiPath,
                                      plan.requestBody)
              IN  IF b.err # NoErr
                    THEN /\ ret' = [ret EXCEPT ![c] =
                                      [NoRet EXCEPT !.op = op, !.err = b.err,
                                                    !.args = [args EXCEPT !.ctx = ctx],
                                                    !.responseBody = plan.responseBody,
                                                    !.tokenBefore = authToken]]
                         /\ StoreToken(c, op, TokenAfterCall(op, authToken, b.err, ZeroTarget))
                         /\ trail' = IF op = "Auth.Login"
                                       THEN TrailAfterLogin(b.err, "") ELSE trail
                         /\ UNCHANGED <<pc, call>>
                    ELSE /\ pc' = [pc EXCEPT ![c] = "sent"]
                         /\ call' = [call EXCEPT ![c] =
                                       [op |-> op, args |-> [args EXCEPT !.ctx = ctx],
                                        req |-> b.req,
                                        responseBody |-> plan.responseBody,
                                        tokenBefore |-> authToken,
                                        timeout |-> client.fields.httpClient.Timeout,
                                        pending |-> {}]]
                         /\ ret' = [ret EXCEPT ![c] = NoRet]
                         /\ UNCHANGED <<authToken, words, trail>>

CallSignup(c) ==
    /\ pc[c] = "idle"
    /\ \E ctx \in Contexts, email \in Credentials, password \in Credentials :
           Begin(c, "Auth.Signup", ctx,
                 [NoArgs EXCEPT !.given = {"email", "password"}, !.email = email, !.password = password],
                 Signup(email, password))

CallLogin(c) ==
    /\ pc[c] = "idle"
    /\ \E ctx \in Contexts, email \in Credentials, password \in Credentials :
           Begin(c, "Auth.Login", ctx,
                 [NoArgs EXCEPT !.given = {"email", "password"}, !.email = email, !.password = password],
                 Login(email, password))

CallDatabaseCreate(c) ==
    /\ pc[c] = "idle"
    /\ \E ctx \in Contexts, dbName \in Names :
           Begin(c, "Databases.Create", ctx,
                 [NoArgs EXCEPT !.given = {"dbName"}, !.dbName = dbName],
                 DatabaseCreate(dbName))

CallDatabaseList(c) ==
    /\ pc[c] = "idle"
    /\ \E ctx \in Contexts : Begin(c, "Databases.List", ctx,
                 [NoArgs EXCEPT !.given = {}],
                 DatabaseList)

CallDatabaseDelete(c) ==
    /\ pc[c] = "idle"
    /\ \E ctx \in Contexts, dbName \in Names :
           Begin(c, "Databases.Delete", ctx,
                 [NoArgs EXCEPT !.given = {"dbName"}, !.dbName = dbName],
                 DatabaseDelete(dbName))

CallDefineSchema(c) ==
    /\ pc[c] = "idle"
    /\ \E ctx \in Contexts, dbName \in Names, tableName \in TableNames, columns \in ColumnCounts :
           Begin(c, "Databases.DefineSchema", ctx,
                 [NoArgs EXCEPT !.given = {"dbName", "tableName", "columns"}, !.dbName = dbName, !.tableName = tableName, !.columns = columns],
                 DefineSchema(dbName, tableName, columns))

CallTableList(c) ==
    /\ pc[c] = "idle"
    /\ \E ctx \in Contexts, dbName \in Names :
           Begin(c, "Tables.List", ctx,
                 [NoArgs EXCEPT !.given = {"dbName"}, !.dbName = dbName],
                 TableList(dbName))

CallTableDelete(c) ==
    /\ pc[c] = "idle"
    /\ \E ctx \in Contexts, dbName \in Names, tableName \in TableNames :
           Begin(c, "Tables.Delete", ctx,
                 [NoArgs EXCEPT !.given = {"dbName", "tableName"}, !.dbName = dbName, !.tableName = tableName],
                 TableDelete(dbName, tableName))

CallRecordCreate(c) ==
    /\ pc[c] = "idle"
    /\ \E ctx \in Contexts, dbName \in Names, tableName \in TableNames, recordData \in DataMaps :
           Begin(c, "Records.Create", ctx,
                 [NoArgs EXCEPT !.given = {"dbName", "tableName", "data"}, !.dbName = dbName, !.tableName = tableName, !.data = recordData],
                 RecordCreate(dbName, tableName, recordData))

CallRecordList(c) ==
    /\ pc[c] = "idle"
    /\ \E ctx \in Contexts, dbName \in Names, tableName \in TableNames,
          opts \in ListOptions :
           Begin(c, "Records.List", ctx,
                 [NoArgs EXCEPT !.given = {"dbName", "tableName", "filters"},
                                !.dbName = dbName, !.tableName = tableName,
                                !.filters = opts.Filters, !.opts = opts],
                 RecordList(dbName, tableName, opts.Filters))

CallRecordGet(c) ==
    /\ pc[c] = "idle"
    /\ \E ctx \in Contexts, dbName \in Names, tableName \in TableNames, recordID \in RecordIDs :
           Begin(c, "Records.Get", ctx,
                 [NoArgs EXCEPT !.given = {"dbName", "tableName", "recordID"}, !.dbName = dbName, !.tableName = tableName, !.recordID = recordID],
                 RecordGet(dbName, tableName, recordID))

CallRecordUpdate(c) ==
    /\ pc[c] = "idle"
    /\ \E ctx \in Contexts, dbName \in Names, tableName \in TableNames, recordID \in RecordIDs,
          updateData \in DataMaps :
           Begin(c, "Records.Update", ctx,
                 [NoArgs EXCEPT !.given = {"dbName", "tableName", "recordID", "data"}, !.dbName = dbName, !.tableName = tableName, !.recordID = recordID, !.data = updateData],
                 RecordUpdate(dbName, tableName, recordID, updateData))

CallRecordDelete(c) ==
    /\ pc[c] = "idle"
    /\ \E ctx \in Contexts, dbName \in Names, tableName \in TableNames, recordID \in RecordIDs :
           Begin(c, "Records.Delete", ctx,
                 [NoArgs EXCEPT !.given = {"dbName", "tableName", "recordID"}, !.dbName = dbName, !.tableName = tableName, !.recordID = recordID],
                 RecordDelete(dbName, tableName, recordID))

\* What caller c's call returns once doRequest is done with resp.
Returned(c, resp) ==
    LET fin == doRequestFinish(resp, call[c].responseBody)
    IN  [op |-> call[c].op, args |-> call[c].args, err |-> fin.err,
         token |-> IF call[c].op = "Auth.Login"
                     THEN LoginFinish(fin.err, fin.target).token ELSE "",
         target |-> fin.target,
         responseBody |-> call[c].responseBody,
         sent |-> 1, req |-> call[c].req, rejected |-> FALSE,
         tokenBefore |-> call[c].tokenBefore, resp |-> Seen(resp)]

\* The transport gives back resp to caller c: doRequest finishes and the
\* service method returns.
Answer(c, resp) ==
    LET r == Returned(c, resp)
    IN  /\ ret' = [ret EXCEPT ![c] = r]
        /\ StoreToken(c, r.op, TokenAfterCall(r.op, authToken, r.err, r.target))
        /\ trail' = IF r.op = "Auth.Login" THEN TrailAfterLogin(r.err, r.token) ELSE trail
        /\ pc' = [pc EXCEPT ![c] = "idle"]
        /\ call' = [call EXCEPT ![c] = NoCall]
        /\ UNCHANGED client

\* The transport gives back any response or fails.
Return(c) ==
    /\ pc[c] = "sent"
    /\ \E resp \in Responses : Answer(c, resp)
    /\ UNCHANGED server

\* Caller c calls Client.SetAuthToken(token).
CallSetAuthToken(c) ==
    /\ pc[c] = "idle"
    /\ client.made = "ok"
    /\ \E token \in Tokens \cup {""} :
           /\ authToken' = SetAuthToken(token)
           /\ words' = WordsOf(SetAuthToken(token), c)
    /\ ret' = [ret EXCEPT ![c] = [NoRet EXCEPT !.op = "SetAuthToken",
                                                !.tokenBefore = authToken]]
    /\ trail' = "none"
    /\ UNCHANGED <<pc, call, client, server>>

\* Caller c calls Client.ClearAuthToken().
CallClearAuthToken(c) ==
    /\ pc[c] = "idle"
    /\ client.made = "ok"
    /\ authToken' = ClearAuthToken
    /\ words' = WordsOf(ClearAuthToken, c)
    /\ ret' = [ret EXCEPT ![c] = [NoRet EXCEPT !.op = "ClearAuthToken",
                                                !.tokenBefore = authToken]]
    /\ UNCHANGED <<pc, call, trail, client, server>>

Step(c) ==
    \/ CallSignup(c)
    \/ CallLogin(c)
    \/ CallDatabaseCreate(c)
    \/ CallDatabaseList(c)
    \/ CallDatabaseDelete(c)
    \/ CallDefineSchema(c)
    \/ CallTableList(c)
    \/ CallTableDelete(c)
    \/ CallRecordCreate(c)
    \/ CallRecordList(c)
    \/ CallRecordGet(c)
    \/ CallRecordUpdate(c)
    \/ CallRecordDelete(c)
    \/ Return(c)
    \/ CallSetAuthToken(c)
    \/ CallClearAuthToken(c)

\* One goroutine uses the client: its calls follow one another.
Next == Step(1)

Spec == Init /\ [][Next]_vars

(***************************************************************************)
(* Construction: NewClient is called with any base URL and options, and    *)
(* the client it returns is used.                                          *)
(***************************************************************************)
InitNew ==
    /\ InitCalls
    /\ client = [made |-> "none", rawBaseURL |-> <<>>, opts |-> <<>>,
                 err |-> NoErr, fields |-> NoClient]
    /\ server = [records |-> {1}, deleted |-> {}, last |-> NoDelete]

CallNewClient ==
    /\ client.made = "none"
    /\ \E rawBaseURL \in BaseURLs, opts \in OptionLists :
           client' = Constructed(rawBaseURL, opts)
    /\ UNCHANGED <<authToken, words, pc, call, ret, trail, server>>

NextNew ==
    \/ CallNewClient
    \/ CallSetAuthToken(1)
    \/ CallClearAuthToken(1)
    \/ CallSignup(1)
    \/ CallDatabaseList(1)

SpecNew == InitNew /\ [][NextNew]_vars

(***************************************************************************)
(* A server that answers a delete of a record it holds with 204 and        *)
(* removes the record, and a delete of any other record with 404.          *)
(***************************************************************************)
InitDelete ==
    /\ InitCalls
    /\ client = Constructed(DefaultBaseURL, <<>>)
    /\ \E records \in SUBSET {id \in RecordIDs : id > 0} :
           server = [records |-> records, deleted |-> {}, last |-> NoDelete]

\* The bodies the server sends with its answer to a delete.
DeleteBodies(existed) == IF existed THEN {<<>>} ELSE {<<>>, <<"OE">>}

AnswerDelete(c) ==
    /\ pc[c] = "sent"
    /\ call[c].op = "Records.Delete"
    /\ LET id == call[c].args.recordID
           existed == id \in server.records
       IN  /\ \E body \in DeleteBodies(existed) :
                  Answer(c, [failed |-> FALSE,
                             StatusCode |-> IF existed THEN StatusNoContent ELSE 404,
                             Body |-> body, readErr |-> FALSE])
           /\ server' = [records |-> server.records \ {id},
                         deleted |-> IF existed THEN server.deleted \cup {id}
                                                ELSE server.deleted,
                         last |-> [id |-> id, existed |-> existed,
                                   gone |-> id \in server.deleted]]

NextDelete ==
    \/ CallRecordDelete(1)
    \/ AnswerDelete(1)
    \/ CallSetAuthToken(1)
    \/ CallClearAuthToken(1)

SpecDelete == InitDelete /\ [][NextDelete]_vars

(***************************************************************************)
(* Two goroutines call Auth.Login on one client.  Nothing orders their     *)
(* writes of Client.authToken: the two words of the string are stored one  *)
(* after the other, in either order, and the other goroutine's stores may  *)
(* fall between them.                                                      *)
(***************************************************************************)
\* What the server answers to a login, or the transport failing.
LoginAnswers ==
    {TransportFailure}
      \cup {[failed |-> FALSE, StatusCode |-> 200, Body |-> <<t>>, readErr |-> FALSE] :
              t \in {"OT1", "OT2"}}
      \cup {[failed |-> FALSE, StatusCode |-> 401, Body |-> <<>>, readErr |-> FALSE]}

\* Goroutine c calls Login.  When doRequest fails before the transport is
\* called, Login goes on to ClearAuthToken, whose two stores are steps of
\* their own; a Login that returns at once or whose request goes to the
\* transport begins as in Begin.
CallLoginRacing(c) ==
    /\ pc[c] = "idle"
    /\ \E ctx \in Contexts, email \in Credentials, password \in Credentials :
         LET args == [NoArgs EXCEPT !.given = {"email", "password"},
                                    !.email = email, !.password = password]
             plan == Login(email, password)
             b == doRequestBuild(authToken, ctx, plan.method, plan.apiPath,
                                 plan.requestBody)
         IN  IF plan.err = NoErr /\ b.err # NoErr
               THEN /\ client.made = "ok"
                    /\ ret' = [ret EXCEPT ![c] =
                                 [NoRet EXCEPT !.op = "Auth.Login", !.err = b.err,
                                               !.args = [args EXCEPT !.ctx = ctx],
                                               !.responseBody = plan.responseBody,
                                               !.tokenBefore = authToken]]
                    /\ pc' = [pc EXCEPT ![c] = "storing"]
                    /\ call' = [call EXCEPT ![c] =
                                  [NoCall EXCEPT !.op = "Auth.Login",
                                                 !.args = [args EXCEPT !.ctx = ctx],
                                                 !.responseBody = plan.responseBody,
                                                 !.tokenBefore = authToken,
                                                 !.pending = {"ptr", "len"}]]
                    /\ UNCHANGED <<authToken, words, trail, client, server>>
               ELSE Begin(c, "Auth.Login", ctx, args, plan)

\* doRequest returns to Login in caller c, which goes on to SetAuthToken
\* or ClearAuthToken.
ReceiveLogin(c) ==
    /\ pc[c] = "sent"
    /\ call[c].op = "Auth.Login"
    /\ \E resp \in LoginAnswers : ret' = [ret EXCEPT ![c] = Returned(c, resp)]
    /\ pc' = [pc EXCEPT ![c] = "storing"]
    /\ call' = [call EXCEPT ![c].pending = {"ptr", "len"}]
    /\ UNCHANGED <<authToken, words, trail, client, server>>

\* c.authToken = token in caller c: one of the two stores.  Login returns
\* after the second.
StoreWord(c) ==
    /\ pc[c] = "storing"
    /\ \E w \in call[c].pending :
         LET token == TokenAfterCall(ret[c].op, authToken, ret[c].err, ret[c].target)
             stored == IF w = "ptr"
                         THEN [words EXCEPT !.ptr = PtrOf(token), !.ptrBy = c]
                         ELSE [words EXCEPT !.len = LenOf(token), !.lenBy = c]
         IN  /\ words' = stored
             /\ authToken' = StringOf(stored)
             /\ IF call[c].pending = {w}
                  THEN /\ pc' = [pc EXCEPT ![c] = "idle"]
                       /\ call' = [call EXCEPT ![c] = NoCall]
                  ELSE /\ call' = [call EXCEPT ![c].pending = call[c].pending \ {w}]
                       /\ UNCHANGED pc
    /\ UNCHANGED <<ret, trail, client, server>>

NextConc == \E c \in Callers : CallLoginRacing(c) \/ ReceiveLogin(c) \/ StoreWord(c)

SpecConc == Init /\ [][NextConc]_vars

TypeOK ==
    /\ authToken \in Tokens \cup {""}
    /\ authToken = StringOf(words)
    /\ client.made = "ok"
    /\ pc \in [Callers -> {"idle", "sent"}]
    /\ trail \in {"none", "loggedIn", "loginFailed"}

(***************************************************************************)
(* Properties.                                                             *)
(***************************************************************************)
\* Caller c's last call was a Databases, Tables or Records method whose
\* arguments passed the method's checks and whose request could be built.
ProtectedCallMade(c) ==
    /\ ret[c].op \in ProtectedOps
    /\ ~ret[c].rejected
    /\ ret[c].err.cause \notin {"marshal", "request"}

\* Caller c's last call got a response (the transport did not fail).
GotResponse(c) == ret[c].resp.got /\ ~ret[c].resp.failed

\* The token field of a JSON value.
TokenField(value) ==
    IF value = "OT1" THEN "T1" ELSE IF value = "OT2" THEN "T2" ELSE ""

\* C1: a protected call made while the cached token is empty returns
\* ErrAuthTokenMissing and its request never reaches the transport.
C1_NoTokenNoRequest ==
    \A c \in Callers :
        /\ (pc[c] = "sent" /\ call[c].op \in ProtectedOps)
              => call[c].tokenBefore # ""
        /\ (ProtectedCallMade(c) /\ ret[c].tokenBefore = "")
              => (ret[c].err = SentinelErr("ErrAuthTokenMissing") /\ ret[c].sent = 0)

\* C2: every request a protected call hands to the transport while token
\* T is cached carries the header Authorization: Bearer T.
C2_BearerOnProtectedRequest ==
    \A c \in Callers :
        (pc[c] = "sent" /\ call[c].op \in ProtectedOps /\ call[c].tokenBefore # "")
            => call[c].req.Authorization = <<"Bearer ", call[c].tokenBefore>>

\* C3: whenever Login returned an error, whatever the cause, the cached
\* token is empty afterwards.
C3_FailedLoginClearsToken ==
    \A c \in Callers :
        (ret[c].op = "Auth.Login" /\ ret[c].err # NoErr) => authToken = ""

\* C4 as claimed: when Login returned no error, the cached token is the
\* token field of the response body and Login returned that token.
C4_LoginCachesBodyToken ==
    \A c \in Callers :
        (ret[c].op = "Auth.Login" /\ ret[c].err = NoErr)
            => /\ authToken = TokenField(ret[c].resp.read)
               /\ ret[c].token = authToken

\* C4 as amended: when Login returned no error the value it returned is
\* the cached token; for a status other than 204 that token is the token
\* field of the response body, replacing the token cached before; for
\* status 204 the body is not decoded and the cached token is empty.
C4_LoginCachesDecodedToken ==
    \A c \in Callers :
        (ret[c].op = "Auth.Login" /\ ret[c].err = NoErr)
            => /\ ret[c].token = authToken
               /\ ret[c].resp.StatusCode # StatusNoContent
                    => authToken = TokenField(ret[c].resp.read)
               /\ ret[c].resp.StatusCode = StatusNoContent => authToken = ""

\* C4 witness: a Login that found T2 cached got a body with token T1 and
\* returned no error.
C4_Witness ==
    \E c \in Callers :
        /\ ret[c].op = "Auth.Login" /\ ret[c].err = NoErr
        /\ ret[c].tokenBefore = "T2"
        /\ ret[c].resp.StatusCode = 200 /\ ret[c].resp.read = "OT1"
        /\ ret[c].token = "T1"

\* C5: after a successful Login and then a failed Login, with no token set
\* in between, a protected call fails with ErrAuthTokenMissing and no
\* request goes out.
C5_StaleTokenNotUsed ==
    \A c \in Callers :
        trail = "loginFailed"
            => /\ ~(pc[c] = "sent" /\ call[c].op \in ProtectedOps)
               /\ ProtectedCallMade(c)
                    => (ret[c].err = SentinelErr("ErrAuthTokenMissing")
                          /\ ret[c].sent = 0)

\* C6: for a response with status >= 400 the call returns an error and
\* nothing is decoded into the response target, whatever the body.
C6_ErrorStatusNeverDecoded ==
    \A c \in Callers :
        (GotResponse(c) /\ ret[c].resp.StatusCode >= 400)
            => /\ ret[c].err # NoErr
               /\ ret[c].target = ZeroTarget
               /\ ret[c].token = ""

\* C6 witness: a Login answered 401 with a body that is a valid login
\* object.
C6_Witness ==
    \E c \in Callers :
        /\ GotResponse(c) /\ ret[c].op = "Auth.Login"
        /\ ret[c].resp.StatusCode = 401 /\ ret[c].resp.read = "OT1"
        /\ ret[c].err # NoErr

\* The kind the documented table gives a status code >= 400.
DocumentedKind(statusCode) ==
    CASE statusCode = 400 -> "ErrBadRequest"
      [] statusCode = 401 -> "ErrUnauthorized"
      [] statusCode = 403 -> "ErrForbidden"
      [] statusCode = 404 -> "ErrNotFound"
      [] statusCode = 409 -> "ErrConflict"
      [] statusCode = 429 -> "ErrRateLimited"
      [] statusCode = 500 -> "ErrInternalServer"
      [] OTHER -> IF statusCode < 500 THEN "unexpected client error"
                                      ELSE "unexpected server error"

\* C7: the error for a status code >= 400 is of the kind the table gives
\* that code, whatever the body and the message: it matches the code's
\* sentinel and no other, or no sentinel when it is of one of the two
\* unmapped kinds.
C7_KindByStatusAlone ==
    \A c \in Callers :
        (GotResponse(c) /\ ret[c].resp.StatusCode >= 400)
            => LET kind == DocumentedKind(ret[c].resp.StatusCode)
               IN  /\ ret[c].err.base = kind
                   /\ \A sentinel \in Sentinels :
                        ErrorsIs(ret[c].err, sentinel) <=> sentinel = kind

\* C7 witness: status 429 with a server message, and the error matches
\* ErrRateLimited.
C7_Witness ==
    \E c \in Callers :
        /\ GotResponse(c) /\ ret[c].resp.StatusCode = 429
        /\ ret[c].err.Message = ServerMessage("boom")
        /\ ErrorsIs(ret[c].err, "ErrRateLimited")

\* C8: every error of a call whose request went to the transport is an
\* APIError with a status code and a message.
C8_DispatchedErrorIsAPIError ==
    \A c \in Callers :
        (ret[c].sent = 1 /\ ret[c].err # NoErr)
            => /\ ret[c].err.kind = "APIError"
               /\ ret[c].err.Message # NoMessage
               /\ GotResponse(c) => ret[c].err.StatusCode = ret[c].resp.StatusCode

\* C9: for status 204, or a status below 400 with no response target, the
\* call returns nil and nothing is decoded, whatever the body.
C9_NoContentNeverDecoded ==
    \A c \in Callers :
        (GotResponse(c)
           /\ \/ ret[c].resp.StatusCode = StatusNoContent
              \/ ret[c].resp.StatusCode < 400 /\ ret[c].responseBody = "nil")
            => ret[c].err = NoErr /\ ret[c].target = ZeroTarget

\* C9 witness: a call with a response target answered 204 with a body that
\* would decode into it.
C9_Witness ==
    \E c \in Callers :
        /\ GotResponse(c) /\ ret[c].op = "Auth.Login"
        /\ ret[c].resp.StatusCode = StatusNoContent /\ ret[c].resp.read = "OT1"
        /\ ret[c].err = NoErr

\* The bytes read of a response decode into a target of this kind.
Decodes(resp, responseBody) ==
    /\ ~resp.readErr
    /\ resp.read # "invalid"
    /\ resp.read # "N" => (resp.read = "A" <=> responseBody = "slice")

\* C10: for a status below 400 other than 204 and a response target, the
\* call returns nil exactly when the bytes read decode into the target;
\* otherwise the error matches ErrInvalidResponse and wraps the failure;
\* an empty body is such an error.
C10_DecodeOrInvalidResponse ==
    \A c \in Callers :
        (GotResponse(c) /\ ret[c].resp.StatusCode < 400
           /\ ret[c].resp.StatusCode # StatusNoContent /\ ret[c].responseBody # "nil")
            => /\ ret[c].err = NoErr <=> Decodes(ret[c].resp, ret[c].responseBody)
               /\ ret[c].err # NoErr
                    => /\ ErrorsIs(ret[c].err, "ErrInvalidResponse")
                       /\ ret[c].err.cause \in {"decode", "read"}
               /\ ret[c].resp.empty => ret[c].err # NoErr

\* C10 witness: a call with a response target answered 200 with an empty
\* body, and the error matches ErrInvalidResponse.
C10_Witness ==
    \E c \in Callers :
        /\ GotResponse(c) /\ ret[c].resp.StatusCode = 200
        /\ ret[c].responseBody # "nil"
        /\ ret[c].resp.empty /\ ~ret[c].resp.readErr
        /\ ErrorsIs(ret[c].err, "ErrInvalidResponse")

\* C11: a call invokes the transport at most once; when the transport
\* fails, the call is over after that one invocation and returns the
\* failure wrapped as "http request failed", an error that matches none of
\* the sentinels.
C11_TransportFailureReturnedOnce ==
    \A c \in Callers :
        /\ ret[c].sent <= 1
        /\ (ret[c].resp.got /\ ret[c].resp.failed)
              => /\ pc[c] = "idle" /\ ret[c].sent = 1
                 /\ ret[c].err = WrapErr("http request failed", CauseErr("transport"))
                 /\ \A s \in Sentinels : ~ErrorsIs(ret[c].err, s)
                 /\ ret[c].target = ZeroTarget

\* C11 witness: a protected call whose one transport invocation failed.
C11_Witness ==
    \E c \in Callers :
        /\ ret[c].op = "Records.Get" /\ ret[c].resp.got /\ ret[c].resp.failed
        /\ ret[c].sent = 1 /\ ret[c].err.base = "http request failed"

\* The arguments hold a value the methods refuse before any request: a
\* blank name, an empty credential, empty data, a schema of no columns, a
\* record ID that is not positive, a payload that cannot be serialized.
LocallyInvalid(args) ==
    \/ "dbName" \in args.given /\ TrimSpace(args.dbName) = ""
    \/ "tableName" \in args.given /\ TrimSpace(args.tableName) = ""
    \/ "email" \in args.given /\ args.email = ""
    \/ "password" \in args.given /\ args.password = ""
    \/ "data" \in args.given /\ args.data \in {"empty", "unmarshalable"}
    \/ "columns" \in args.given /\ args.columns = 0
    \/ "recordID" \in args.given /\ args.recordID <= 0

\* C12: a call whose arguments are locally invalid returns an error and
\* its request never reaches the transport.
C12_LocalRejectionSendsNothing ==
    \A c \in Callers :
        /\ pc[c] = "sent" => ~LocallyInvalid(call[c].args)
        /\ (ret[c].op \in ProtectedOps \cup AuthOps /\ LocallyInvalid(ret[c].args))
              => /\ ret[c].err # NoErr
                 /\ ret[c].sent = 0 /\ ~ret[c].resp.got /\ ret[c].req = NoRequest

\* C12 witness: Records.Update of record 0, with valid names and data,
\* refused with nothing sent.
C12_Witness ==
    \E c \in Callers :
        /\ ret[c].op = "Records.Update" /\ ret[c].args.recordID = 0
        /\ ret[c].args.dbName = "db1" /\ ret[c].args.tableName = "tbl1"
        /\ ret[c].args.data = "ok" /\ ret[c].args.ctx = "ctx"
        /\ ret[c].err = NewErr("record ID must be positive") /\ ret[c].sent = 0

\* C13: Auth.Signup and Auth.Login never return ErrAuthTokenMissing, and
\* with a non-empty email and password (and a context a request can be
\* built with) their request reaches the transport, whether the cached
\* token was empty or set.
C13_AuthCallsNotGated ==
    \A c \in Callers :
        ret[c].op \in AuthOps
            => /\ ~ErrorsIs(ret[c].err, "ErrAuthTokenMissing")
               /\ (ret[c].args.email # "" /\ ret[c].args.password # ""
                     /\ ret[c].args.ctx = "ctx")
                    => /\ ret[c].sent = 1 /\ ret[c].resp.got
                       /\ ret[c].req.url = baseURL \o <<"auth", "/">>
                                             \o (IF ret[c].op = "Auth.Login"
                                                   THEN <<"login">> ELSE <<"signup">>)

\* C13 witness: a Login made with no token cached was answered by the
\* server.
C13_Witness ==
    \E c \in Callers :
        /\ ret[c].op = "Auth.Login" /\ ret[c].tokenBefore = ""
        /\ ret[c].sent = 1 /\ GotResponse(c) /\ ret[c].resp.StatusCode = 200

\* Caller c's last call had a response target and was answered with a
\* success status and a body longer than the cap.
CutSuccessBody(c) ==
    /\ GotResponse(c) /\ ~ret[c].resp.readErr /\ ret[c].resp.cut
    /\ ret[c].resp.StatusCode < 400
    /\ ret[c].responseBody # "nil"

\* C14 as claimed: a success body cut off by the cap always yields an
\* error matching ErrInvalidResponse.
C14_CutBodyIsInvalidResponse ==
    \A c \in Callers :
        CutSuccessBody(c) => ErrorsIs(ret[c].err, "ErrInvalidResponse")

\* C14: of a body longer than the cap only the first 1 MiB is used.  With
\* an error status the message is taken from those bytes; with a success
\* status other than 204 and a response target the call returns nil
\* exactly when those bytes alone decode into the target, which then holds
\* their value, and an error matching ErrInvalidResponse otherwise, as
\* when the cap falls inside the JSON value; with status 204 the body is
\* not read and the call returns nil with the target as it was.
C14_OnlyFirstMiBUsed ==
    \A c \in Callers :
        /\ (CutSuccessBody(c) /\ ret[c].resp.StatusCode = StatusNoContent)
              => ret[c].err = NoErr /\ ret[c].target = ZeroTarget
        /\ (CutSuccessBody(c) /\ ret[c].resp.StatusCode # StatusNoContent)
              => /\ ret[c].err = NoErr <=> Decodes(ret[c].resp, ret[c].responseBody)
                 /\ ret[c].resp.inValue
                      => ErrorsIs(ret[c].err, "ErrInvalidResponse")
                 /\ ret[c].err # NoErr
                      => /\ ErrorsIs(ret[c].err, "ErrInvalidResponse")
                         /\ ret[c].target = ZeroTarget
                 /\ ret[c].err = NoErr
                      => /\ ret[c].target.set = (ret[c].resp.read # "N")
                         /\ ret[c].op = "Auth.Login"
                              => ret[c].target.Token = TokenField(ret[c].resp.read)
        /\ (GotResponse(c) /\ ~ret[c].resp.readErr /\ ret[c].resp.cut
               /\ ret[c].resp.StatusCode >= 400)
              => /\ ret[c].err.StatusCode = ret[c].resp.StatusCode
                 /\ ret[c].err.Message =
                      IF ret[c].resp.read = "OE"
                        THEN ServerMessage("boom")
                        ELSE StatusMessage(ret[c].resp.StatusCode, FALSE)

\* C14 witness: Login answered 200 with a token object followed by
\* whitespace that runs past the cap; it returned nil and that token.
C14_Witness ==
    \E c \in Callers :
        /\ CutSuccessBody(c) /\ ret[c].op = "Auth.Login"
        /\ ret[c].resp.StatusCode = 200
        /\ ret[c].resp.read = "OT1"
        /\ ret[c].err = NoErr /\ ret[c].token = "T1"

\* strings.ToLower of a sort direction.
LowerDirection(dir) ==
    IF dir = "DESC" THEN "desc" ELSE IF dir = "ASC" THEN "asc" ELSE dir

\* The query parameters the claim has a listing carry for these options.
ClaimedQuery(opts) ==
    (IF opts.SortBy = "" THEN {}
     ELSE IF LowerDirection(opts.SortDirection) \in {"asc", "desc"}
       THEN {<<"sort=", opts.SortBy, ":", LowerDirection(opts.SortDirection)>>}
       ELSE {<<"sort=", opts.SortBy>>})
    \cup (IF opts.Limit = "" THEN {} ELSE {<<"limit=", opts.Limit>>})
    \cup (IF opts.Offset = "" THEN {} ELSE {<<"offset=", opts.Offset>>})

\* C15: the request of a record listing carries the sort column of the
\* caller's options, with the suffix :asc or :desc when the direction is
\* asc or desc in any case and no suffix otherwise, and their limit and
\* offset.
C15_ListCarriesSortLimitOffset ==
    \A c \in Callers :
        (pc[c] = "sent" /\ call[c].op = "Records.List")
            => \A param \in ClaimedQuery(call[c].args.opts) :
                   \E i \in 1..Len(call[c].req.url) :
                       /\ \E k \in 1..(i - 1) : call[c].req.url[k] = "?"
                       /\ i + Len(param) - 1 <= Len(call[c].req.url)
                       /\ \A j \in 1..Len(param) :
                              call[c].req.url[i + j - 1] = param[j]

\* The scheme of a URL string, in lower case.
SchemeOf(url) ==
    IF url # <<>> /\ Head(url) \in {"http", "https", "HTTPS"}
         /\ Len(url) > 1 /\ url[2] = ":"
      THEN ToLower(<<Head(url)>>) ELSE <<>>

\* C16: NewClient returns a client exactly when the base URL is not empty,
\* parses as an absolute URL and has scheme http or https (and the options
\* apply); the base URL of a client has scheme http or https, ends with
\* "/" and is the one NewClient made of its argument.
C16_BaseURLValidatedAndFixed ==
    LET parsed == ParseRequestURI(TrimSuffix(client.rawBaseURL, <<"/">>) \o <<"/">>)
        valid == /\ client.rawBaseURL # <<>>
                 /\ parsed.err = NoErr
                 /\ parsed.url.Scheme \in {<<"http">>, <<"https">>}
    IN  /\ client.made = "ok" => valid
        /\ (client.made # "none" /\ ~valid) => client.made = "failed"
        /\ client.made = "ok"
             => /\ SchemeOf(baseURL) \in {<<"http">>, <<"https">>}
                /\ HasSuffix(baseURL, <<"/">>)
                /\ client.fields.baseURL = parsed.url

\* The argument of the last WithRequestTimeout among opts, 0 if none.
RequestedTimeout(opts) ==
    LET at == {i \in 1..Len(opts) : opts[i].kind = "WithRequestTimeout"}
    IN  IF at = {} THEN 0
        ELSE opts[CHOOSE i \in at : \A j \in at : j <= i].d

\* C17: a client made with WithRequestTimeout(d), d > 0, hands every
\* request to an http.Client whose timeout is d, whatever the other
\* options and their order; a WithRequestTimeout that is not positive and
\* a WithHTTPClient(nil) make NewClient fail.
C17_RequestTimeoutApplied ==
    /\ (client.made = "ok" /\ RequestedTimeout(client.opts) > 0)
          => /\ client.fields.httpClient.Timeout = RequestedTimeout(client.opts)
             /\ \A c \in Callers :
                    pc[c] = "sent" => call[c].timeout = RequestedTimeout(client.opts)
    /\ (client.made # "none"
          /\ \E i \in 1..Len(client.opts) :
                 \/ client.opts[i].kind = "WithRequestTimeout" /\ client.opts[i].d <= 0
                 \/ client.opts[i].kind = "WithHTTPClient" /\ client.opts[i].hc.nil)
          => client.made = "failed"

\* Caller c's last call was a Records.Delete with arguments the method
\* accepts.
DeleteCalled(c) ==
    /\ ret[c].op = "Records.Delete"
    /\ ~LocallyInvalid(ret[c].args) /\ ret[c].args.ctx = "ctx"

\* C18: with a server that answers 204 to the delete of a record it holds
\* and 404 otherwise, every Records.Delete with valid arguments sends its
\* request; it returns nil only for a record the server held, and an error
\* matching ErrNotFound for any other, a record deleted before through
\* this client included.
C18_RepeatedDeleteIsNotFound ==
    \A c \in Callers :
        DeleteCalled(c)
            => /\ ret[c].sent = 1 /\ GotResponse(c)
               /\ server.last.id = ret[c].args.recordID
               /\ ret[c].err = NoErr <=> server.last.existed
               /\ ~server.last.existed
                    => /\ ErrorsIs(ret[c].err, "ErrNotFound")
                       /\ ret[c].err.StatusCode = 404
               /\ server.last.gone => ErrorsIs(ret[c].err, "ErrNotFound")

\* C18 witness: the delete of a record that an earlier delete through
\* this client removed was sent and returned ErrNotFound.
C18_Witness ==
    \E c \in Callers :
        /\ DeleteCalled(c) /\ server.last.gone
        /\ ret[c].args.recordID \in server.deleted
        /\ ret[c].sent = 1 /\ ErrorsIs(ret[c].err, "ErrNotFound")

\* C19: a step that changes the cached token is a step of Auth.Login, of
\* SetAuthToken or of ClearAuthToken: Signup and the Databases, Tables and
\* Records methods leave it as it was however they end.
C19_OnlyLoginSetClearWriteToken ==
    [][authToken' # authToken
         => \E c \in Callers :
                \/ pc[c] = "sent" /\ call[c].op = "Auth.Login"
                \/ /\ pc[c] = "idle" /\ pc'[c] = "idle"
                   /\ ret'[c].op \in {"Auth.Login", "SetAuthToken", "ClearAuthToken"}]_vars

\* C19 witness: a Databases, Tables or Records call made with token T1
\* cached was answered 401, and T1 is still cached.
C19_Witness ==
    \E c \in Callers :
        /\ ret[c].op \in ProtectedOps /\ GotResponse(c)
        /\ ret[c].resp.StatusCode = 401 /\ ErrorsIs(ret[c].err, "ErrUnauthorized")
        /\ ret[c].tokenBefore = "T1" /\ authToken = "T1"

\* Both callers' last calls are Logins that got as far as doRequest, and
\* both have returned.
BothLoginsReturned ==
    \A c \in Callers :
        pc[c] = "idle" /\ ret[c].op = "Auth.Login" /\ ~ret[c].rejected

\* The token caller c's Login wrote.
Written(c) == IF ret[c].err = NoErr THEN ret[c].token ELSE ""

\* C20 as claimed: after two Logins have returned, the cached token is
\* empty or the token one of them returned with success.
C20_EmptyOrTokenOfALogin ==
    BothLoginsReturned
        => authToken \in {""} \cup {ret[c].token : c \in {d \in Callers : ret[d].err = NoErr}}

\* C20: after two Logins have returned, each word of the cached token is
\* the one the Login that stored that word last wrote: the token is what
\* that Login wrote when one Login stored both words last (empty for a
\* failed Login, even if the other succeeded), and otherwise a mix of the
\* data of one written token with the length of the other, which is no
\* string either wrote when exactly one of them is empty.
C20_WordsOfLastStores ==
    BothLoginsReturned
        => /\ words.ptrBy \in Callers /\ words.lenBy \in Callers
           /\ words.ptr = PtrOf(Written(words.ptrBy))
           /\ words.len = LenOf(Written(words.lenBy))
           /\ authToken = StringOf(words)
           /\ words.ptrBy = words.lenBy => authToken = Written(words.ptrBy)
           /\ authToken \in {"", "torn"} \cup {Written(c) : c \in Callers}

\* C20 witness: caller 1's Login returned T1, caller 2's Login failed and
\* stored last; the cached token is empty.
C20_Witness ==
    /\ BothLoginsReturned
    /\ ret[1].err = NoErr /\ ret[1].token = "T1"
    /\ ret[2].err # NoErr /\ ret[2].sent = 1
    /\ words.ptrBy = 2 /\ words.lenBy = 2 /\ authToken = ""

====
